---- MODULE Spec2Model ----
(***************************************************************************)
(* Model of the probe-and-capture pipeline of                              *)
(* src/src/app/api/screenshot/route.ts: the POST handler, the liveness     *)
(* probe checkWebsiteStatus with its two certificate strategies, and the   *)
(* screenshot capturer takeScreenshot with its recursive retry.            *)
(*                                                                         *)
(* External collaborators (fetch, tls, ssl-checker, playwright, the        *)
(* clock) are inputs: every outcome they can deliver is chosen with \E.    *)
(* JavaScript strings are TLA+ strings; an optional field is <<>> when     *)
(* undefined and <<v>> when it holds v.                                    *)
(***************************************************************************)
EXTENDS Integers, Sequences, FiniteSets, TLC

(* ------------------------------ bounds -------------------------------- *)

\* longest list of websites in a request body
MaxSites == 2

(* ------------------------- program constants -------------------------- *)

\* retryCount < 1 (route.ts:373)
MaxRetries == 1

\* error.message.substring(0, 100) (route.ts:223)
MsgLimit == 100

\* 1000 * 60 * 60 * 24 (route.ts:85)
MsPerDay == 86400000

(* ------------------------------ strings ------------------------------- *)

Undefined == <<>>

Some(v) == <<v>>

\* String.prototype.startsWith
StartsWith(s, p) == Len(s) >= Len(p) /\ SubSeq(s, 1, Len(p)) = p

\* String.prototype.includes
Includes(s, n) == \E k \in 0..(Len(s) - Len(n)) : SubSeq(s, k + 1, k + Len(n)) = n

\* String.prototype.substring(0, n)
Substring0(s, n) == IF Len(s) <= n THEN s ELSE SubSeq(s, 1, n)

LowerChar(c) ==
  CASE c = "A" -> "a" [] c = "B" -> "b" [] c = "C" -> "c" [] c = "D" -> "d"
    [] c = "E" -> "e" [] c = "F" -> "f" [] c = "G" -> "g" [] c = "H" -> "h"
    [] c = "I" -> "i" [] c = "J" -> "j" [] c = "K" -> "k" [] c = "L" -> "l"
    [] c = "M" -> "m" [] c = "N" -> "n" [] c = "O" -> "o" [] c = "P" -> "p"
    [] c = "Q" -> "q" [] c = "R" -> "r" [] c = "S" -> "s" [] c = "T" -> "t"
    [] c = "U" -> "u" [] c = "V" -> "v" [] c = "W" -> "w" [] c = "X" -> "x"
    [] c = "Y" -> "y" [] c = "Z" -> "z" [] OTHER -> c

RECURSIVE ToLowerCase(_)
\* String.prototype.toLowerCase
ToLowerCase(s) ==
  IF Len(s) = 0 THEN s
  ELSE LowerChar(SubSeq(s, 1, 1)) \o ToLowerCase(SubSeq(s, 2, Len(s)))

(* -------------------------- site classifier --------------------------- *)

specialSites ==
  { "amazon.com", "amazon.co.uk", "amazon.de", "amazon.fr", "amazon.in",
    "amazon.ca", "amazon.com.au", "ebay.com", "netflix.com", "facebook.com",
    "instagram.com", "twitter.com", "linkedin.com" }

needsSpecialHandling(url) ==
  \E site \in specialSites : Includes(ToLowerCase(url), site)

\* url.startsWith("https://")
IsHttps(url) == StartsWith(url, "https://")

(* ------------------------------ inputs -------------------------------- *)

\* the Website records a request may carry: a secure standard site and an
\* insecure site of the special list (upper-case host)
Websites ==
  { [id |-> 1, url |-> "https://a.io"],
    [id |-> 2, url |-> "http://EBAY.com/"] }

RECURSIVE SeqsUpTo(_, _)
\* the sequences over S of length at most n
SeqsUpTo(S, n) ==
  IF n = 0 THEN { <<>> }
  ELSE LET shorter == SeqsUpTo(S, n - 1)
       IN shorter \cup { Append(q, x) : q \in { r \in shorter : Len(r) = n - 1 }, x \in S }

\* what request.json() can deliver: a body whose websites is an array (empty
\* or not), is missing, is no array, or a body that does not parse
Bodies ==
  { [kind |-> "array", websites |-> w] : w \in SeqsUpTo(Websites, MaxSites) }
    \cup { [kind |-> k, websites |-> <<>>] : k \in {"missing", "notArray", "badJson"} }

\* what fetch can deliver: a response (ok or not) or a thrown error
FetchOutcomes ==
  { [kind |-> "response", ok |-> TRUE, name |-> "", message |-> ""],
    [kind |-> "response", ok |-> FALSE, name |-> "", message |-> ""],
    [kind |-> "throw", ok |-> FALSE, name |-> "AbortError", message |-> "This operation was aborted"],
    [kind |-> "throw", ok |-> FALSE, name |-> "TypeError", message |-> "fetch failed"] }

\* peer certificates the handshake can read (valid_from, valid_to in ms):
\* current, expired, not yet valid, and one without dates
Certs ==
  { [valid_from |-> Some(0 - MsPerDay), valid_to |-> Some(10 * MsPerDay)],
    [valid_from |-> Some(0 - (3 * MsPerDay)), valid_to |-> Some(0 - 1)],
    [valid_from |-> Some(MsPerDay), valid_to |-> Some(9 * MsPerDay)],
    [valid_from |-> Undefined, valid_to |-> Undefined] }

\* the first event of the direct handshake: connected (with the certificate
\* read), socket error, idle timeout, or a URL that does not parse
HandshakeEvents ==
  { [kind |-> "secureConnect", cert |-> c] : c \in Certs }
    \cup { [kind |-> k, cert |-> [valid_from |-> Undefined, valid_to |-> Undefined]]
           : k \in {"error", "timeout", "badUrl"} }

\* what sslChecker can deliver: a report or a thrown error
CheckerOutcomes ==
  { [kind |-> "report", valid |-> TRUE, validFrom |-> Some(0 - 1), validTo |-> Some(10),
     daysRemaining |-> Some(10)],
    [kind |-> "report", valid |-> FALSE, validFrom |-> Some(0 - 3), validTo |-> Some(0 - 1),
     daysRemaining |-> Some(0 - 1)],
    [kind |-> "throw", valid |-> FALSE, validFrom |-> Undefined, validTo |-> Undefined,
     daysRemaining |-> Undefined] }

\* errors a playwright call can throw; the last has no message
CaptureErrors ==
  { "page.goto: Navigation failed", "timeout 45000ms exceeded",
    "net::ERR_NAME_NOT_RESOLVED", "" }

(* ---------------------- certificate inspection ------------------------ *)

NoSslInfo ==
  [ ssl_valid |-> FALSE, ssl_renew_date |-> Undefined, ssl_issued_date |-> Undefined,
    ssl_expire_date |-> Undefined, ssl_expires |-> Undefined,
    ssl_days_remaining |-> Undefined ]

\* toISOString().split('T')[0]: the UTC day of a time in ms
IsoDate(t) == t \div MsPerDay

\* the secureConnect record with both bounds of the validity test exclusive
CertRecordStrict(cert, t) ==
  IF cert.valid_from = Undefined \/ cert.valid_to = Undefined
  THEN NoSslInfo
  ELSE LET validFrom == cert.valid_from[1]
           validTo == cert.valid_to[1]
       IN [ ssl_valid |-> (t > validFrom /\ t < validTo),
            ssl_expire_date |-> Some(IsoDate(validTo)),
            ssl_expires |-> Some(IsoDate(validTo)),
            ssl_days_remaining |-> Some((validTo - t) \div MsPerDay),
            ssl_renew_date |-> Some(IsoDate(validFrom)),
            ssl_issued_date |-> Some(IsoDate(validFrom)) ]

\* the secureConnect record with daysRemaining rounded toward zero
\* (Math.trunc in place of Math.floor)
CertRecordTrunc(cert, t) ==
  IF cert.valid_from = Undefined \/ cert.valid_to = Undefined
  THEN NoSslInfo
  ELSE LET validFrom == cert.valid_from[1]
           validTo == cert.valid_to[1]
       IN [ ssl_valid |-> (t >= validFrom /\ t <= validTo),
            ssl_expire_date |-> Some(IsoDate(validTo)),
            ssl_expires |-> Some(IsoDate(validTo)),
            ssl_days_remaining |->
              Some(IF validTo >= t THEN (validTo - t) \div MsPerDay
                   ELSE 0 - ((t - validTo) \div MsPerDay)),
            ssl_renew_date |-> Some(IsoDate(validFrom)),
            ssl_issued_date |-> Some(IsoDate(validFrom)) ]

\* the record the secureConnect callback resolves with
CertRecord(cert, t) ==
  IF cert.valid_from = Undefined \/ cert.valid_to = Undefined
  THEN NoSslInfo
  ELSE LET validFrom == cert.valid_from[1]
           validTo == cert.valid_to[1]
       IN [ ssl_valid |-> (t >= validFrom /\ t <= validTo),
            ssl_expire_date |-> Some(IsoDate(validTo)),
            ssl_expires |-> Some(IsoDate(validTo)),
            ssl_days_remaining |-> Some((validTo - t) \div MsPerDay),
            ssl_renew_date |-> Some(IsoDate(validFrom)),
            ssl_issued_date |-> Some(IsoDate(validFrom)) ]

\* getSSLCertificateInfo(url), given the handshake's first event and the time
getSSLCertificateInfo(url, event, t) ==
  IF ~IsHttps(url) THEN NoSslInfo
  ELSE IF event.kind = "secureConnect" THEN CertRecord(event.cert, t)
  ELSE NoSslInfo

\* checkSSLWithChecker(url), given what sslChecker delivered
checkSSLWithChecker(url, outcome) ==
  IF ~IsHttps(url) THEN NoSslInfo
  ELSE IF outcome.kind = "throw" THEN NoSslInfo
  ELSE [ ssl_valid |-> outcome.valid,
         ssl_renew_date |-> outcome.validFrom,
         ssl_issued_date |-> outcome.validFrom,
         ssl_expire_date |-> outcome.validTo,
         ssl_expires |-> outcome.validTo,
         ssl_days_remaining |-> outcome.daysRemaining ]

\* a || b on optional values
OrElse(a, b) == IF a = Undefined THEN b ELSE a

\* the error_message of the catch branch without the substring(0, 100)
ProbeErrorMessageUncut(error) ==
  IF error.name = "AbortError" THEN "Request timeout"
  ELSE IF error.message # "" THEN error.message
  ELSE "Connection failed"

\* the error_message of the catch branch of checkWebsiteStatus
ProbeErrorMessage(error) ==
  IF error.name = "AbortError" THEN "Request timeout"
  ELSE IF error.message # "" THEN Substring0(error.message, MsgLimit)
  ELSE "Connection failed"

\* the probe result with ssl_valid true for every https URL that answered
ProbeResultSchemeOnly(url, fetched, sslInfo, response_time) ==
  [ status |-> IF fetched.kind = "throw" THEN "error"
               ELSE IF fetched.ok THEN "up" ELSE "down",
    ssl_valid |-> IF fetched.kind = "throw" THEN sslInfo.ssl_valid ELSE IsHttps(url),
    ssl_renew_date |-> sslInfo.ssl_renew_date,
    ssl_issued_date |-> OrElse(sslInfo.ssl_issued_date, sslInfo.ssl_renew_date),
    ssl_expire_date |-> sslInfo.ssl_expire_date,
    ssl_expires |-> OrElse(sslInfo.ssl_expires, sslInfo.ssl_expire_date),
    ssl_days_remaining |-> sslInfo.ssl_days_remaining,
    response_time |-> Some(response_time),
    error_message |-> IF fetched.kind = "throw" THEN Some(ProbeErrorMessage(fetched))
                      ELSE Undefined ]

\* the probe result with ssl_valid taken from the response alone, as in
\* ssl_valid: url.startsWith('https://') && response.ok
ProbeResultResponseOnly(url, fetched, sslInfo, response_time) ==
  [ status |-> IF fetched.kind = "throw" THEN "error"
               ELSE IF fetched.ok THEN "up" ELSE "down",
    ssl_valid |-> IsHttps(url) /\ fetched.kind = "response" /\ fetched.ok,
    ssl_renew_date |-> sslInfo.ssl_renew_date,
    ssl_issued_date |-> OrElse(sslInfo.ssl_issued_date, sslInfo.ssl_renew_date),
    ssl_expire_date |-> sslInfo.ssl_expire_date,
    ssl_expires |-> OrElse(sslInfo.ssl_expires, sslInfo.ssl_expire_date),
    ssl_days_remaining |-> sslInfo.ssl_days_remaining,
    response_time |-> Some(response_time),
    error_message |-> IF fetched.kind = "throw" THEN Some(ProbeErrorMessage(fetched))
                      ELSE Undefined ]

\* the record checkWebsiteStatus returns, from the fetch outcome, the selected
\* sslInfo and the measured response time
ProbeResult(url, fetched, sslInfo, response_time) ==
  [ status |-> IF fetched.kind = "throw" THEN "error"
               ELSE IF fetched.ok THEN "up" ELSE "down",
    ssl_valid |-> IF fetched.kind = "throw" THEN sslInfo.ssl_valid
                  ELSE IsHttps(url) /\ (fetched.ok \/ sslInfo.ssl_valid),
    ssl_renew_date |-> sslInfo.ssl_renew_date,
    ssl_issued_date |-> OrElse(sslInfo.ssl_issued_date, sslInfo.ssl_renew_date),
    ssl_expire_date |-> sslInfo.ssl_expire_date,
    ssl_expires |-> OrElse(sslInfo.ssl_expires, sslInfo.ssl_expire_date),
    ssl_days_remaining |-> sslInfo.ssl_days_remaining,
    response_time |-> Some(response_time),
    error_message |-> IF fetched.kind = "throw" THEN Some(ProbeErrorMessage(fetched))
                      ELSE Undefined ]

(* ------------------------------- state -------------------------------- *)

VARIABLES
  body,            \* what request.json() delivers for this request
  pc,              \* where POST stands
  idx,             \* position of the website the for loop is at (0 before it)
  results,         \* const results: ScreenshotResult[]
  response,        \* the NextResponse returned: [status, data]
  now,             \* the clock Date.now() reads (it stands still during a request)
  cw,              \* locals of the running checkWebsiteStatus call
  statusCheck,     \* const statusCheck = await checkWebsiteStatus(...)
  screenshot_path, \* let screenshot_path
  frames,          \* the activations of takeScreenshot, outermost first
  browsers,        \* the browsers chromium.launch produced for the running
                   \* takeScreenshot call, and any still open from earlier
  calls            \* per website: how often each collaborator was invoked

vars ==
  << body, pc, idx, results, response, now, cw, statusCheck, screenshot_path,
     frames, browsers, calls >>

NoResponse == [status |-> 0, error |-> "", data |-> <<>>]

\* the socket and the promise of a getSSLCertificateInfo call: the kinds of
\* the events that fired, the first event, how often resolve was called, and
\* the promise's value once it has one
NoSocket == [fired |-> {}, first |-> Undefined, resolves |-> 0, value |-> Undefined]

\* the locals of checkWebsiteStatus before its first await; handshake is the
\* first event of the direct handshake, kept beside nativeSslInfo
NoCw ==
  [ startTime |-> 0, fetched |-> Undefined, response_time |-> 0, sslInfo |-> NoSslInfo,
    handshake |-> Undefined, nativeSslInfo |-> Undefined, checkerSslInfo |-> Undefined,
    socket |-> NoSocket ]

\* statusCheck before the first probe has returned
NoStatusCheck ==
  ProbeResult("", [kind |-> "response", ok |-> FALSE, name |-> "", message |-> ""], NoSslInfo, 0)

NoCalls == [probe |-> 0, native |-> 0, checker |-> 0, capture |-> 0, launch |-> 0]

\* the website the loop is at
website == body.websites[idx]

Init ==
  /\ body \in Bodies
  /\ pc = "request"
  /\ idx = 0
  /\ results = <<>>
  /\ response = NoResponse
  /\ now = 0
  /\ cw = NoCw
  /\ statusCheck = NoStatusCheck
  /\ screenshot_path = Undefined
  /\ frames = <<>>
  /\ browsers = <<>>
  /\ calls = NoCalls

(* -------------------------------- POST -------------------------------- *)

\* the validation without its websites.length === 0 test
RejectedNoLength(b) == b.kind = "missing" \/ b.kind # "array"

\* !websites || !Array.isArray(websites) || websites.length === 0
Rejected(b) == b.kind = "missing" \/ b.kind # "array" \/ Len(b.websites) = 0

\* the catch of POST: 500 Internal server error
InternalError == [status |-> 500, error |-> "Internal server error", data |-> <<>>]

\* await request.json() and the validation of websites
PostRequest ==
  /\ pc = "request"
  /\ IF body.kind = "badJson"
     THEN pc' = "done" /\ response' = InternalError
     ELSE IF Rejected(body)
     THEN pc' = "done" /\ response' = [status |-> 400, error |-> "No websites provided", data |-> <<>>]
     ELSE pc' = "loop" /\ UNCHANGED response
  /\ UNCHANGED << body, idx, results, now, cw, statusCheck, screenshot_path, frames,
                  browsers, calls >>

\* the head of for (const website of websites): the next website's probe is
\* called, or the loop ends and the results are returned
PostLoop ==
  /\ pc = "loop"
  /\ IF idx < Len(body.websites)
     THEN /\ idx' = idx + 1
          /\ pc' = "fetch"
          /\ cw' = [NoCw EXCEPT !.startTime = now]
          /\ calls' = [NoCalls EXCEPT !.probe = 1]
          /\ UNCHANGED response
     ELSE /\ pc' = "done"
          /\ response' = [status |-> 200, error |-> "", data |-> results]
          /\ UNCHANGED << idx, cw, calls >>
  /\ UNCHANGED << body, results, now, statusCheck, screenshot_path, frames, browsers >>

(* -------------------------- checkWebsiteStatus ------------------------- *)

\* await fetch(url, ...) with the outcome drawn from `outcomes`: a response or
\* a thrown error; response_time is taken
ProbeFetchFrom(outcomes) ==
  /\ pc = "fetch"
  /\ \E fetched \in outcomes :
       cw' = [cw EXCEPT !.fetched = Some(fetched), !.response_time = now - cw.startTime]
  /\ pc' = IF IsHttps(website.url) THEN "native" ELSE "probeReturn"
  /\ UNCHANGED << body, idx, results, response, now, statusCheck, screenshot_path,
                  frames, browsers, calls >>

ProbeFetch == ProbeFetchFrom(FetchOutcomes)

\* the third-party strategy tried whatever the direct handshake reported
ProbeNativeAlwaysChecker(events) ==
  /\ pc = "native"
  /\ \E event \in events :
       LET nativeSslInfo == getSSLCertificateInfo(website.url, event, now)
           seen == [cw EXCEPT !.handshake = Some(event), !.nativeSslInfo = Some(nativeSslInfo)]
       IN IF nativeSslInfo.ssl_valid
          THEN cw' = [seen EXCEPT !.sslInfo = nativeSslInfo]
          ELSE cw' = seen
  /\ pc' = "checker"
  /\ calls' = [calls EXCEPT !.native = @ + 1]
  /\ UNCHANGED << body, idx, results, response, now, statusCheck, screenshot_path,
                  frames, browsers >>

\* the direct handshake rejecting to its caller on a socket error or a
\* timeout, the rejection ending the request in the catch of POST
ProbeNativeRejecting(events) ==
  /\ pc = "native"
  /\ \E event \in events :
       LET nativeSslInfo == getSSLCertificateInfo(website.url, event, now)
           seen == [cw EXCEPT !.handshake = Some(event), !.nativeSslInfo = Some(nativeSslInfo)]
       IN IF event.kind \in {"error", "timeout"}
          THEN cw' = seen /\ pc' = "done" /\ response' = InternalError
          ELSE IF nativeSslInfo.ssl_valid
          THEN cw' = [seen EXCEPT !.sslInfo = nativeSslInfo] /\ pc' = "probeReturn"
                 /\ UNCHANGED response
          ELSE cw' = seen /\ pc' = "checker" /\ UNCHANGED response
  /\ calls' = [calls EXCEPT !.native = @ + 1]
  /\ UNCHANGED << body, idx, results, now, statusCheck, screenshot_path, frames, browsers >>

\* const nativeSslInfo = await getSSLCertificateInfo(url), the handshake's
\* first event drawn from `events`
ProbeNativeFrom(events) ==
  /\ pc = "native"
  /\ \E event \in events :
       LET nativeSslInfo == getSSLCertificateInfo(website.url, event, now)
           seen == [cw EXCEPT !.handshake = Some(event), !.nativeSslInfo = Some(nativeSslInfo)]
       IN IF nativeSslInfo.ssl_valid
          THEN cw' = [seen EXCEPT !.sslInfo = nativeSslInfo] /\ pc' = "probeReturn"
          ELSE cw' = seen /\ pc' = "checker"
  /\ calls' = [calls EXCEPT !.native = @ + 1]
  /\ UNCHANGED << body, idx, results, response, now, statusCheck, screenshot_path,
                  frames, browsers >>

ProbeNative == ProbeNativeFrom(HandshakeEvents)

\* const checkerSslInfo = await checkSSLWithChecker(url)
ProbeChecker ==
  /\ pc = "checker"
  /\ \E outcome \in CheckerOutcomes :
       LET checkerSslInfo == checkSSLWithChecker(website.url, outcome)
       IN IF checkerSslInfo.ssl_valid
          THEN cw' = [cw EXCEPT !.sslInfo = checkerSslInfo,
                                !.checkerSslInfo = Some(checkerSslInfo)]
          ELSE cw' = [cw EXCEPT !.checkerSslInfo = Some(checkerSslInfo)]
  /\ pc' = "probeReturn"
  /\ calls' = [calls EXCEPT !.checker = @ + 1]
  /\ UNCHANGED << body, idx, results, response, now, statusCheck, screenshot_path,
                  frames, browsers >>

\* the return of checkWebsiteStatus, received by POST; the records of the two
\* strategies go out of scope
ProbeReturn ==
  /\ pc = "probeReturn"
  /\ statusCheck' = ProbeResult(website.url, cw.fetched[1], cw.sslInfo, cw.response_time)
  /\ cw' = [cw EXCEPT !.handshake = Undefined, !.nativeSslInfo = Undefined,
                      !.checkerSslInfo = Undefined]
  /\ pc' = "callCapture"
  /\ UNCHANGED << body, idx, results, response, now, screenshot_path, frames, browsers,
                  calls >>

(* ---------------------------- takeScreenshot --------------------------- *)

\* what an activation of takeScreenshot completes with: nothing yet, a path
\* `/screenshots/${id}_${ts}.png`, null, the promise of the recursive call,
\* or a thrown error
NoRet == [kind |-> "none", id |-> 0, ts |-> 0]

PathRet(id, ts) == [kind |-> "path", id |-> id, ts |-> ts]

NullRet == [kind |-> "null", id |-> 0, ts |-> 0]

InnerRet == [kind |-> "inner", id |-> 0, ts |-> 0]

ThrowRet == [kind |-> "throw", id |-> 0, ts |-> 0]

\* an activation takeScreenshot(url, id, retryCount) at its first await;
\* browser 0 is `let browser` still undefined
NewFrame(retryCount) ==
  [ retryCount |-> retryCount, pc |-> "launch", browser |-> 0, failed |-> FALSE,
    error |-> "", ret |-> NoRet ]

\* error.message.includes("timeout") || error.message.includes("Navigation")
MessageMatches(message) == Includes(message, "timeout") \/ Includes(message, "Navigation")

\* the retry condition with the bound off by one (retryCount <= 1)
ShouldRetryOffByOne(retryCount, message) ==
  retryCount <= MaxRetries /\ message # "" /\ MessageMatches(message)

\* the condition of the retry in the catch block
ShouldRetry(retryCount, message) ==
  retryCount < MaxRetries /\ message # "" /\ MessageMatches(message)

\* frame f goes to its catch block with the error thrown
Caught(f, message) ==
  [frames EXCEPT ![f].pc = "catch", ![f].failed = TRUE, ![f].error = message]

\* browser.close() on browser b: counted, and the browser is closed when
\* `closes` says so
Closed(b, closes) ==
  [browsers EXCEPT ![b].closeCalls = @ + 1, ![b].open = @ /\ ~closes]

\* the capture attempted only for a site the probe found up: the others go
\* on without a screenshot
PostCallCaptureIfUp ==
  /\ pc = "callCapture"
  /\ IF statusCheck.status = "up"
     THEN /\ frames' = << NewFrame(0) >>
          /\ calls' = [calls EXCEPT !.capture = @ + 1]
          /\ pc' = "capture"
          /\ UNCHANGED screenshot_path
     ELSE /\ screenshot_path' = Undefined
          /\ pc' = "merge"
          /\ UNCHANGED << frames, calls >>
  /\ UNCHANGED << body, idx, results, response, now, cw, statusCheck, browsers >>

\* screenshot_path = (await takeScreenshot(website.url, website.id)) || undefined:
\* the call, up to its first await
PostCallCapture ==
  /\ pc = "callCapture"
  /\ frames' = << NewFrame(0) >>
  /\ calls' = [calls EXCEPT !.capture = @ + 1]
  /\ pc' = "capture"
  /\ UNCHANGED << body, idx, results, response, now, cw, statusCheck, screenshot_path,
                  browsers >>

\* browser = await chromium.launch(...)
TsLaunch(f) ==
  /\ frames[f].pc = "launch"
  /\ \/ /\ browsers' = Append(browsers, [open |-> TRUE, closeCalls |-> 0, site |-> idx])
        /\ frames' = [frames EXCEPT ![f].pc = "goto", ![f].browser = Len(browsers) + 1]
     \/ /\ \E message \in CaptureErrors : frames' = Caught(f, message)
        /\ UNCHANGED browsers
  /\ calls' = [calls EXCEPT !.launch = @ + 1]
  /\ UNCHANGED << body, pc, idx, results, response, now, cw, statusCheck, screenshot_path >>

\* newPage, setViewportSize, page.goto
TsGoto(f) ==
  /\ frames[f].pc = "goto"
  /\ \/ frames' = [frames EXCEPT ![f].pc = "settle"]
     \/ \E message \in CaptureErrors : frames' = Caught(f, message)
  /\ UNCHANGED << body, pc, idx, results, response, now, cw, statusCheck, screenshot_path,
                  browsers, calls >>

\* the settle waits: a standard site swallows their errors, a special site's
\* page.waitForTimeout calls stand outside the inner try
TsSettle(f) ==
  /\ frames[f].pc = "settle"
  /\ \/ frames' = [frames EXCEPT ![f].pc = "shot"]
     \/ /\ needsSpecialHandling(website.url)
        /\ \E message \in CaptureErrors : frames' = Caught(f, message)
  /\ UNCHANGED << body, pc, idx, results, response, now, cw, statusCheck, screenshot_path,
                  browsers, calls >>

\* fileName from Date.now(), page.screenshot, return `/screenshots/${fileName}`
TsScreenshot(f) ==
  /\ frames[f].pc = "shot"
  /\ \/ frames' = [frames EXCEPT ![f].pc = "finally", ![f].ret = PathRet(website.id, now)]
     \/ \E message \in CaptureErrors : frames' = Caught(f, message)
  /\ UNCHANGED << body, pc, idx, results, response, now, cw, statusCheck, screenshot_path,
                  browsers, calls >>

\* the catch block retrying without closing the browser first
TsCatchNoClose(f) ==
  /\ frames[f].pc = "catch"
  /\ frames' =
       IF ShouldRetry(frames[f].retryCount, frames[f].error)
       THEN [frames EXCEPT ![f].pc = "backoff"]
       ELSE [frames EXCEPT ![f].pc = "finally", ![f].ret = NullRet]
  /\ UNCHANGED << body, pc, idx, results, response, now, cw, statusCheck, screenshot_path,
                  browsers, calls >>

\* the catch block up to its first await: retry or return null
TsCatch(f) ==
  /\ frames[f].pc = "catch"
  /\ frames' =
       IF ShouldRetry(frames[f].retryCount, frames[f].error)
       THEN [frames EXCEPT ![f].pc = IF frames[f].browser # 0 THEN "catchClose" ELSE "backoff"]
       ELSE [frames EXCEPT ![f].pc = "finally", ![f].ret = NullRet]
  /\ UNCHANGED << body, pc, idx, results, response, now, cw, statusCheck, screenshot_path,
                  browsers, calls >>

\* if (browser) await browser.close() of the catch block; a close that throws
\* leaves the catch block for the finally block
TsCatchClose(f) ==
  /\ frames[f].pc = "catchClose"
  /\ \/ /\ browsers' = Closed(frames[f].browser, TRUE)
        /\ frames' = [frames EXCEPT ![f].pc = "backoff"]
     \/ /\ \E closes \in BOOLEAN : browsers' = Closed(frames[f].browser, closes)
        /\ frames' = [frames EXCEPT ![f].pc = "finally", ![f].ret = ThrowRet]
  /\ UNCHANGED << body, pc, idx, results, response, now, cw, statusCheck, screenshot_path,
                  calls >>

\* the 2000 ms wait, then return takeScreenshot(url, id, retryCount + 1): the
\* recursive call runs to its first await and its promise is what this
\* activation returns once its finally block is through
TsRetry(f) ==
  /\ frames[f].pc = "backoff"
  /\ frames' = Append([frames EXCEPT ![f].pc = "finally", ![f].ret = InnerRet],
                      NewFrame(frames[f].retryCount + 1))
  /\ UNCHANGED << body, pc, idx, results, response, now, cw, statusCheck, screenshot_path,
                  browsers, calls >>

\* a finally block that calls close() only on a browser still open
TsFinallyIfOpen(f) ==
  /\ frames[f].pc = "finally"
  /\ IF frames[f].browser = 0 \/ ~browsers[frames[f].browser].open
     THEN /\ frames' = [frames EXCEPT ![f].pc = "settled"]
          /\ UNCHANGED browsers
     ELSE \/ /\ browsers' = Closed(frames[f].browser, TRUE)
             /\ frames' = [frames EXCEPT ![f].pc = "settled"]
          \/ /\ \E closes \in BOOLEAN : browsers' = Closed(frames[f].browser, closes)
             /\ frames' = [frames EXCEPT ![f].pc = "settled", ![f].ret = ThrowRet]
  /\ UNCHANGED << body, pc, idx, results, response, now, cw, statusCheck, screenshot_path,
                  calls >>

\* takeScreenshot without its finally block: nothing is closed on the way out
TsFinallyNoClose(f) ==
  /\ frames[f].pc = "finally"
  /\ frames' = [frames EXCEPT ![f].pc = "settled"]
  /\ UNCHANGED << body, pc, idx, results, response, now, cw, statusCheck, screenshot_path,
                  browsers, calls >>

\* finally { if (browser) await browser.close() }: closing a browser that is
\* already closed does nothing; a close that throws replaces the completion
TsFinally(f) ==
  /\ frames[f].pc = "finally"
  /\ IF frames[f].browser = 0
     THEN /\ frames' = [frames EXCEPT ![f].pc = "settled"]
          /\ UNCHANGED browsers
     ELSE \/ /\ browsers' = Closed(frames[f].browser, TRUE)
             /\ frames' = [frames EXCEPT ![f].pc = "settled"]
          \/ /\ browsers[frames[f].browser].open
             /\ \E closes \in BOOLEAN : browsers' = Closed(frames[f].browser, closes)
             /\ frames' = [frames EXCEPT ![f].pc = "settled", ![f].ret = ThrowRet]
  /\ UNCHANGED << body, pc, idx, results, response, now, cw, statusCheck, screenshot_path,
                  calls >>

RECURSIVE Settled(_, _)
\* the promise of activation f is settled: its finally block is through and,
\* when it returned the recursive call's promise, that one is settled too
Settled(fs, f) ==
  /\ f <= Len(fs)
  /\ fs[f].pc = "settled"
  /\ (fs[f].ret.kind = "inner" => Settled(fs, f + 1))

RECURSIVE Outcome(_, _)
\* what the settled promise of activation f holds
Outcome(fs, f) == IF fs[f].ret.kind = "inner" THEN Outcome(fs, f + 1) ELSE fs[f].ret

\* an await that resumes as soon as the outer activation has a completion,
\* its finally block and the recursive call still running
AwaitDoneEarly(fs) == fs # <<>> /\ fs[1].ret.kind # "none"

\* an await that takes the outer activation's own completion only and does
\* not follow the promise of the recursive call it returned
AwaitDoneOwn(fs) == fs # <<>> /\ fs[1].pc = "settled" /\ fs[1].ret.kind # "inner"

\* POST's await of takeScreenshot resumes
AwaitDone(fs) == Settled(fs, 1)

\* the await of line 418 resumes: the path (or undefined for null) is stored,
\* or the rejection lands in the catch of POST
PostResume ==
  /\ pc = "capture"
  /\ AwaitDone(frames)
  /\ LET outcome == Outcome(frames, 1)
     IN IF outcome.kind = "throw"
        THEN pc' = "done" /\ response' = InternalError /\ UNCHANGED screenshot_path
        ELSE /\ pc' = "merge"
             /\ screenshot_path' = IF outcome.kind = "path" THEN Some(outcome) ELSE Undefined
             /\ UNCHANGED response
  /\ UNCHANGED << body, idx, results, now, cw, statusCheck, frames, browsers, calls >>

\* Reconcile with the status overridden and ssl_valid left as the probe
\* returned it (lines 425-427 dropped)
ReconcileStatusOnly(sc, path, url) ==
  IF path # Undefined /\ sc.status # "up"
  THEN [sc EXCEPT !.status = "up"]
  ELSE sc

\* Reconcile with the override applied whether or not there is a screenshot
ReconcileAlways(sc, path, url) ==
  IF sc.status # "up"
  THEN [sc EXCEPT !.status = "up",
                  !.ssl_valid = IF IsHttps(url) THEN TRUE ELSE @]
  ELSE sc

\* Reconcile without the override of lines 421-428
ReconcileNoOverride(sc, path, url) == sc

\* Reconcile with ssl_valid set whatever the scheme (line 425 dropped)
ReconcileAnyScheme(sc, path, url) ==
  IF path # Undefined /\ sc.status # "up"
  THEN [sc EXCEPT !.status = "up", !.ssl_valid = TRUE]
  ELSE sc

\* lines 420-428: a screenshot overrides a probe status other than 'up'
Reconcile(sc, path, url) ==
  IF path # Undefined /\ sc.status # "up"
  THEN [sc EXCEPT !.status = "up",
                  !.ssl_valid = IF IsHttps(url) THEN TRUE ELSE @]
  ELSE sc

\* the ScreenshotResult with the probe's error_message copied unconditionally
ResultKeepMessage(site, path, sc) ==
  [ id |-> site.id, url |-> site.url, screenshot_path |-> path,
    status |-> sc.status, ssl_valid |-> sc.ssl_valid,
    ssl_renew_date |-> sc.ssl_renew_date, ssl_issued_date |-> sc.ssl_issued_date,
    ssl_expire_date |-> sc.ssl_expire_date, ssl_expires |-> sc.ssl_expires,
    ssl_days_remaining |-> sc.ssl_days_remaining, response_time |-> sc.response_time,
    error_message |-> sc.error_message ]

\* lines 430-443: the ScreenshotResult of a website
Result(site, path, sc) ==
  [ id |-> site.id, url |-> site.url, screenshot_path |-> path,
    status |-> sc.status, ssl_valid |-> sc.ssl_valid,
    ssl_renew_date |-> sc.ssl_renew_date, ssl_issued_date |-> sc.ssl_issued_date,
    ssl_expire_date |-> sc.ssl_expire_date, ssl_expires |-> sc.ssl_expires,
    ssl_days_remaining |-> sc.ssl_days_remaining, response_time |-> sc.response_time,
    error_message |-> IF path # Undefined THEN Undefined ELSE sc.error_message ]

\* results.unshift(result) in place of push
PushFront(rs, result) == << result >> \o rs

\* results.push(result)
Push(rs, result) == Append(rs, result)

\* a browser process that has not been closed
StillOpen(b) == b.open

\* lines 420-445: reconcile, build the result, push it; the loop goes on and the
\* handles of the closed browsers go out of scope with the call's frames
PostMerge ==
  /\ pc = "merge"
  /\ statusCheck' = Reconcile(statusCheck, screenshot_path, website.url)
  /\ results' = Push(results, Result(website, screenshot_path, statusCheck'))
  /\ pc' = "loop"
  /\ frames' = <<>>
  /\ browsers' = SelectSeq(browsers, StillOpen)
  /\ UNCHANGED << body, idx, response, now, cw, screenshot_path, calls >>

(* ---------------------------- specification --------------------------- *)

\* a step of any activation of takeScreenshot that is at that step
Launch == \E f \in 1..Len(frames) : TsLaunch(f)

Goto == \E f \in 1..Len(frames) : TsGoto(f)

Settle == \E f \in 1..Len(frames) : TsSettle(f)

Screenshot == \E f \in 1..Len(frames) : TsScreenshot(f)

Catch == \E f \in 1..Len(frames) : TsCatch(f)

CatchClose == \E f \in 1..Len(frames) : TsCatchClose(f)

Retry == \E f \in 1..Len(frames) : TsRetry(f)

Finally == \E f \in 1..Len(frames) : TsFinally(f)

Next ==
  \/ PostRequest
  \/ PostLoop
  \/ ProbeFetch
  \/ ProbeNative
  \/ ProbeChecker
  \/ ProbeReturn
  \/ PostCallCapture
  \/ Launch
  \/ Goto
  \/ Settle
  \/ Screenshot
  \/ Catch
  \/ CatchClose
  \/ Retry
  \/ Finally
  \/ PostResume
  \/ PostMerge

Spec == Init /\ [][Next]_vars

(* ------------------------------- claims -------------------------------- *)

\* the sites of the run that have a result, with their results
Final == { results[k] : k \in 1..Len(results) }

\* the fetch outcome of the probe of the website the loop is at
Fetched == cw.fetched[1]

\* C1: no final result has a screenshot_path together with a status other
\* than 'up': a site whose capture returned a path ends 'up', whatever the
\* probe reported.
C1_ScreenshotImpliesUp ==
  /\ \A r \in Final : r.screenshot_path # Undefined => r.status = "up"
  /\ (pc = "loop" /\ idx >= 1 /\ screenshot_path # Undefined) => results[idx].status = "up"

\* C1 witness: a site whose probe threw (status 'error') and whose capture
\* returned a path has been pushed with status 'up'.
C1_Witness ==
  /\ pc = "loop"
  /\ idx >= 1
  /\ Len(results) = idx
  /\ Fetched.kind = "throw"
  /\ results[idx].screenshot_path # Undefined
  /\ results[idx].status = "up"

\* C2: when POST returns 200 for a non-empty list, the returned list has as
\* many records as the input and record i carries id and url of input site i.
C2_OrderAndCardinality ==
  (pc = "done" /\ response.status = 200) =>
    /\ Len(response.data) = Len(body.websites)
    /\ \A k \in 1..Len(body.websites) :
         /\ response.data[k].id = body.websites[k].id
         /\ response.data[k].url = body.websites[k].url

\* C2 witness: a 200 response for two different sites, the first without a
\* screenshot and the second with one.
C2_Witness ==
  /\ pc = "done"
  /\ response.status = 200
  /\ Len(body.websites) = 2
  /\ body.websites[1] # body.websites[2]
  /\ response.data[1].screenshot_path = Undefined
  /\ response.data[1].status = "error"
  /\ response.data[2].screenshot_path # Undefined

\* the top-level takeScreenshot call of the current site has returned (its
\* promise is fulfilled, with a path or with null)
Returned ==
  /\ frames # <<>>
  /\ Settled(frames, 1)
  /\ Outcome(frames, 1).kind \in {"path", "null"}

\* attempt f of the current call failed with a navigation/timeout error, as
\* the catch block tells one: a message holding "timeout" or "Navigation"
NavigationFailure(f) ==
  /\ f <= Len(frames)
  /\ frames[f].failed
  /\ frames[f].error # ""
  /\ MessageMatches(frames[f].error)

\* the browsers not closed
OpenBrowsers == { b \in 1..Len(browsers) : browsers[b].open }

\* C3 (as claimed): a valid non-empty request always ends with a 200 response
\* that holds one record per input site, whatever per-site step failed,
\* browser teardown included.
C3_FailuresContained ==
  (pc = "done" /\ body.kind = "array" /\ Len(body.websites) > 0) =>
    /\ response.status = 200
    /\ Len(response.data) = Len(body.websites)

\* C4: one takeScreenshot call launches at most two browsers; when its two
\* attempts both fail with a navigation/timeout error, exactly two launches
\* have occurred, there is no third attempt and no screenshot path comes back.
C4_RetryAtMostOnce ==
  /\ calls.launch <= 2
  /\ Len(frames) <= 2
  /\ \A f \in 1..Len(frames) : frames[f].retryCount = f - 1
  /\ (Settled(frames, 1) /\ NavigationFailure(1) /\ NavigationFailure(2)) =>
       /\ calls.launch = 2
       /\ Outcome(frames, 1).kind # "path"
  /\ (Returned /\ NavigationFailure(1) /\ NavigationFailure(2)) =>
       Outcome(frames, 1).kind = "null"

\* C4 witness: a call has returned null after two attempts that both failed
\* with a navigation/timeout error, each having launched its browser.
C4_Witness ==
  /\ Returned
  /\ NavigationFailure(1)
  /\ NavigationFailure(2)
  /\ frames[1].browser # 0
  /\ frames[2].browser # 0
  /\ calls.launch = 2
  /\ Outcome(frames, 1).kind = "null"

\* C5: once the top-level takeScreenshot call has returned, with a path or
\* with null, after a retry or not, no browser launched is still open; nor is
\* one open while no call is running.
C5_NoBrowserLeftOpen ==
  (Returned \/ frames = <<>>) => OpenBrowsers = {}

\* C5 witness: a call has returned a path from its retry attempt, two
\* browsers were launched and both have been closed.
C5_Witness ==
  /\ Returned
  /\ Len(frames) = 2
  /\ Len(browsers) = 2
  /\ Outcome(frames, 1).kind = "path"
  /\ \A b \in 1..Len(browsers) : ~browsers[b].open /\ browsers[b].closeCalls >= 1

\* checkWebsiteStatus is running for the current site
ProbeRunning == pc \in {"fetch", "native", "checker", "probeReturn"}

\* some activation of takeScreenshot still has steps to take
CaptureRunning == \E f \in 1..Len(frames) : frames[f].pc # "settled"

\* C6: the sites are processed strictly one after the other: while the probe
\* of a site runs its capture has not started; while any step of a capture is
\* outstanding POST does nothing but await it; a site's steps start only when
\* every earlier site has its result and none of their browsers is left.
C6_StrictlySequential ==
  /\ ProbeRunning => (frames = <<>> /\ calls.capture = 0)
  /\ CaptureRunning => pc = "capture"
  /\ (ProbeRunning \/ pc \in {"callCapture", "capture", "merge"}) => Len(results) = idx - 1
  /\ pc = "loop" => (Len(results) = idx /\ frames = <<>>)
  /\ \A b \in 1..Len(browsers) : browsers[b].site = idx

\* C6 witness: the second site's capture is in its retry attempt while the
\* first site's result is already in the list.
C6_Witness ==
  /\ idx = 2
  /\ pc = "capture"
  /\ Len(frames) = 2
  /\ CaptureRunning
  /\ Len(results) = 1

\* C7: at most one browser is open at any time; when a retry attempt exists
\* the browser of the attempt before it is closed.
C7_OneBrowserAtATime ==
  /\ Cardinality(OpenBrowsers) <= 1
  /\ \A f \in 2..Len(frames) :
       frames[f - 1].browser # 0 => ~browsers[frames[f - 1].browser].open

\* C7 witness: on the second site the retry attempt's browser is open and the
\* first attempt's browser is closed.
C7_Witness ==
  /\ idx = 2
  /\ Len(frames) = 2
  /\ frames[1].browser # 0
  /\ frames[2].browser # 0
  /\ browsers[frames[2].browser].open
  /\ ~browsers[frames[1].browser].open

\* no certificate field of result r is populated
NoCertificateFields(r) ==
  /\ r.ssl_renew_date = Undefined
  /\ r.ssl_issued_date = Undefined
  /\ r.ssl_expire_date = Undefined
  /\ r.ssl_expires = Undefined
  /\ r.ssl_days_remaining = Undefined

\* C8: for a site whose URL does not start with https:// neither certificate
\* strategy is invoked, and its final result has ssl_valid false and no
\* certificate field, whatever the probe and the capture delivered.
C8_InsecureNeverValid ==
  /\ (idx >= 1 /\ ~IsHttps(website.url)) => (calls.native = 0 /\ calls.checker = 0)
  /\ \A r \in Final : ~IsHttps(r.url) => (~r.ssl_valid /\ NoCertificateFields(r))

\* C8 witness: an http site whose probe did not find it up has been pushed
\* with a screenshot, hence with the status overridden to 'up'.
C8_Witness ==
  /\ pc = "loop"
  /\ idx >= 1
  /\ Len(results) = idx
  /\ ~IsHttps(website.url)
  /\ ~Fetched.ok
  /\ results[idx].screenshot_path # Undefined
  /\ results[idx].status = "up"
  /\ ~results[idx].ssl_valid

\* the body carries no usable list: websites is missing, no array, or empty
NoWebsites == body.kind \in {"missing", "notArray"} \/ (body.kind = "array" /\ Len(body.websites) = 0)

\* C9: an empty, missing or non-array websites value is answered with 400:
\* no probe is issued, no browser launched, and no 200 is ever returned.
C9_EmptyInputRejected ==
  NoWebsites =>
    /\ calls = NoCalls
    /\ browsers = <<>>
    /\ frames = <<>>
    /\ results = <<>>
    /\ pc \in {"request", "done"}
    /\ pc = "done" => (response.status = 400 /\ response.data = <<>>)

\* C9 witness: the empty array has been answered with 400.
C9_Witness ==
  /\ pc = "done"
  /\ body.kind = "array"
  /\ Len(body.websites) = 0
  /\ response.status = 400

\* C10: for each site takeScreenshot is called exactly once at top level,
\* after the probe has returned and whatever it reported: never while the
\* probe runs, and once by the time the site's result is built.
C10_CaptureAlwaysOnce ==
  /\ calls.capture <= 1
  /\ (ProbeRunning \/ pc = "callCapture") => (calls.capture = 0 /\ calls.probe = 1)
  /\ pc \in {"capture", "merge"} => (calls.capture = 1 /\ calls.probe = 1)
  /\ (pc = "loop" /\ idx >= 1) => (calls.capture = 1 /\ calls.probe = 1)

\* C10 witness: the capture was called once for a site of the special list
\* whose probe reported an error.
C10_Witness ==
  /\ pc = "merge"
  /\ statusCheck.status = "error"
  /\ needsSpecialHandling(website.url)
  /\ calls.capture = 1

\* the loop is at a website whose URL starts with https://
Secure == idx >= 1 /\ IsHttps(website.url)

\* the HTTP request of the current probe returned a response with a success
\* status
ResponseOk == Fetched.kind = "response" /\ Fetched.ok

\* the record the current checkWebsiteStatus call is about to return
ProbeValue == ProbeResult(website.url, Fetched, cw.sslInfo, cw.response_time)

\* C11: the ssl_valid a probe returns is (URL is https) and (the response had
\* a success status or the selected certificate record is valid), on the
\* response path and on the thrown-error path alike.
C11_SslValidFormula ==
  pc = "callCapture" =>
    statusCheck.ssl_valid = (IsHttps(website.url) /\ (ResponseOk \/ cw.sslInfo.ssl_valid))

\* C11 witness: a probe whose request threw has returned ssl_valid true, from
\* a valid certificate record.
C11_Witness ==
  /\ pc = "callCapture"
  /\ Fetched.kind = "throw"
  /\ cw.sslInfo.ssl_valid
  /\ statusCheck.ssl_valid

\* C12: for an https URL the direct handshake is invoked exactly once and
\* first, the third-party checker if and only if the handshake did not report
\* valid, and a valid handshake record is the one the probe uses, whether the
\* request returned a response or threw.
C12_StrategyOrder ==
  /\ pc = "native" => (calls.native = 0 /\ calls.checker = 0)
  /\ pc = "checker" =>
       /\ calls.native = 1 /\ calls.checker = 0
       /\ cw.nativeSslInfo # Undefined /\ ~cw.nativeSslInfo[1].ssl_valid
  /\ (pc = "probeReturn" /\ Secure) =>
       /\ calls.native = 1
       /\ cw.nativeSslInfo # Undefined
       /\ (calls.checker = 1) = (~cw.nativeSslInfo[1].ssl_valid)
       /\ (calls.checker = 0) = (cw.nativeSslInfo[1].ssl_valid)
       /\ cw.nativeSslInfo[1].ssl_valid =>
            /\ cw.sslInfo = cw.nativeSslInfo[1]
            /\ ProbeValue.ssl_expire_date = cw.nativeSslInfo[1].ssl_expire_date
            /\ ProbeValue.ssl_days_remaining = cw.nativeSslInfo[1].ssl_days_remaining
  /\ (Secure /\ pc \in {"callCapture", "capture", "merge"}) =>
       (calls.native = 1 /\ calls.checker <= 1)

\* C12 witness: on the thrown-error path the handshake reported valid, the
\* checker was not invoked and the handshake's record is the one selected.
C12_Witness ==
  /\ pc = "probeReturn"
  /\ Secure
  /\ Fetched.kind = "throw"
  /\ cw.nativeSslInfo # Undefined
  /\ cw.nativeSslInfo[1].ssl_valid
  /\ calls.checker = 0
  /\ cw.sslInfo = cw.nativeSslInfo[1]

\* C13 (as claimed): when neither strategy reported valid for an https URL
\* but one of them produced dates, the probe result carries those dates, the
\* direct handshake's first.
C13_DiagnosticDatesKept ==
  (pc = "probeReturn" /\ Secure /\ cw.nativeSslInfo # Undefined
     /\ cw.checkerSslInfo # Undefined /\ ~cw.sslInfo.ssl_valid) =>
    LET native == cw.nativeSslInfo[1]
        checker == cw.checkerSslInfo[1]
    IN /\ native.ssl_expire_date # Undefined =>
            /\ ProbeValue.ssl_expire_date = native.ssl_expire_date
            /\ ProbeValue.ssl_issued_date = native.ssl_issued_date
       /\ (native.ssl_expire_date = Undefined /\ checker.ssl_expire_date # Undefined) =>
            /\ ProbeValue.ssl_expire_date = checker.ssl_expire_date
            /\ ProbeValue.ssl_issued_date = checker.ssl_issued_date

\* C14 (as claimed): when neither strategy produced a valid record for an
\* https URL the probe returns ssl_valid false, whatever the HTTP outcome.
C14_Original ==
  (pc = "callCapture" /\ Secure /\ ~cw.sslInfo.ssl_valid) => ~statusCheck.ssl_valid

\* C14 (amended): when neither strategy produced a valid record for an https
\* URL the probe returns ssl_valid false if the request threw or the response
\* had a non-success status, and true if the response had a success status.
C14_DowngradeUnlessResponseOk ==
  (pc = "callCapture" /\ Secure /\ ~cw.sslInfo.ssl_valid) =>
    statusCheck.ssl_valid = ResponseOk

\* C14 witness: a probe of an https URL with no valid record and a
\* non-success response has returned ssl_valid false.
C14_Witness ==
  /\ pc = "callCapture"
  /\ Secure
  /\ ~cw.sslInfo.ssl_valid
  /\ Fetched.kind = "response"
  /\ ~Fetched.ok
  /\ ~statusCheck.ssl_valid

\* the site of the current iteration has just had its result pushed
JustPushed == pc = "loop" /\ idx >= 1 /\ Len(results) = idx

\* C15: no result with a screenshot_path carries an error_message, and the
\* error_message of a result without a screenshot is the one the probe of that
\* site produced (absent when the probe produced none).
C15_ErrorMessageOnlyWithoutScreenshot ==
  /\ \A r \in Final : r.screenshot_path # Undefined => r.error_message = Undefined
  /\ JustPushed =>
       LET r == results[idx]
       IN r.error_message = IF r.screenshot_path # Undefined THEN Undefined
                            ELSE ProbeValue.error_message

\* C15 witness: the probe of a site produced an error_message, the capture
\* produced a file, and the result pushed for the site has no error_message.
C15_Witness ==
  /\ JustPushed
  /\ ProbeValue.error_message # Undefined
  /\ results[idx].screenshot_path # Undefined
  /\ results[idx].error_message = Undefined

(* ------------------ one call of checkWebsiteStatus -------------------- *)

\* how far the longest error message exceeds the limit of line 223
MaxOver == 2

\* the clock and the certificate dates range over this many days either side
\* of the epoch
MaxDays == 2

RECURSIVE Repeat(_, _)
\* String.prototype.repeat
Repeat(c, n) == IF n = 0 THEN "" ELSE c \o Repeat(c, n - 1)

\* a message of n characters whose characters past the limit differ from
\* those before it
MessageOfLength(n) ==
  IF n <= MsgLimit THEN Repeat("e", n)
  ELSE Repeat("e", MsgLimit) \o Repeat("x", n - MsgLimit)

\* messages an error thrown by fetch can carry: none, short ones, and ones
\* around the limit
ErrorMessages ==
  { MessageOfLength(n) : n \in {0, 1, MsgLimit - 1, MsgLimit} \cup { MsgLimit + k : k \in 1..MaxOver } }
    \cup { "fetch failed", "Request timeout" }

\* error.name of what fetch throws; a thrown non-Error has none
ErrorNames == { "AbortError", "TypeError", "" }

\* what fetch can deliver, with every error name and message
WideFetchOutcomes ==
  { o \in FetchOutcomes : o.kind = "response" }
    \cup { [kind |-> "throw", ok |-> FALSE, name |-> n, message |-> msg]
           : n \in ErrorNames, msg \in ErrorMessages }

\* the instants Date.now() can read: each day boundary and the millisecond
\* before and after it
Instants == { (d * MsPerDay) + e : d \in (0 - MaxDays)..MaxDays, e \in {0 - 1, 0, 1} }

\* valid_from and valid_to of a peer certificate fall on day boundaries
CertTimes == { d * MsPerDay : d \in (0 - MaxDays)..MaxDays }

\* peer certificates with every pair of dates, and one without dates
WideCerts ==
  { [valid_from |-> Some(dates[1]), valid_to |-> Some(dates[2])]
    : dates \in { d \in CertTimes \X CertTimes : d[1] <= d[2] } }
    \cup { [valid_from |-> Undefined, valid_to |-> Undefined] }

\* the first event of the direct handshake, over every certificate
WideHandshakeEvents ==
  { [kind |-> "secureConnect", cert |-> c] : c \in WideCerts }
    \cup { e \in HandshakeEvents : e.kind # "secureConnect" }

\* POST has called checkWebsiteStatus for the only website of its body, at
\* any instant
InitProbe ==
  /\ body \in { [kind |-> "array", websites |-> << w >>] : w \in Websites }
  /\ pc = "fetch"
  /\ idx = 1
  /\ results = <<>>
  /\ response = NoResponse
  /\ now \in Instants
  /\ cw = [NoCw EXCEPT !.startTime = now]
  /\ statusCheck = NoStatusCheck
  /\ screenshot_path = Undefined
  /\ frames = <<>>
  /\ browsers = <<>>
  /\ calls = [NoCalls EXCEPT !.probe = 1]

ProbeFetchWide == ProbeFetchFrom(WideFetchOutcomes)

ProbeNativeWide == ProbeNativeFrom(WideHandshakeEvents)

NextProbe ==
  \/ ProbeFetchWide
  \/ ProbeNativeWide
  \/ ProbeChecker
  \/ ProbeReturn

SpecProbe == InitProbe /\ [][NextProbe]_vars

\* C16: a probe whose request threw returns status 'error'; its error_message
\* is "Request timeout" when the error's name is AbortError, otherwise
\* "Connection failed" when the error has no message, otherwise the first
\* MsgLimit characters of the error's message (the whole message if shorter).
C16_ProbeErrorMessage ==
  (pc = "callCapture" /\ Fetched.kind = "throw") =>
    /\ statusCheck.status = "error"
    /\ statusCheck.error_message # Undefined
    /\ LET text == statusCheck.error_message[1]
       IN IF Fetched.name = "AbortError" THEN text = "Request timeout"
          ELSE IF Fetched.message = "" THEN text = "Connection failed"
          ELSE /\ Len(text) <= MsgLimit
               /\ StartsWith(Fetched.message, text)
               /\ Len(text) = MsgLimit \/ text = Fetched.message

\* C16 witness: a probe whose request threw an error, not an abort, with a
\* message longer than the limit has returned the message cut to the limit.
C16_Witness ==
  /\ pc = "callCapture"
  /\ Fetched.kind = "throw"
  /\ Fetched.name = "TypeError"
  /\ Len(Fetched.message) > MsgLimit
  /\ statusCheck.status = "error"
  /\ statusCheck.error_message = Some(MessageOfLength(MsgLimit))

\* the direct handshake of the running probe connected and read a certificate
\* with both dates
HandshakeRead ==
  /\ pc \in {"checker", "probeReturn"}
  /\ cw.handshake # Undefined
  /\ cw.handshake[1].kind = "secureConnect"
  /\ cw.handshake[1].cert.valid_from # Undefined
  /\ cw.handshake[1].cert.valid_to # Undefined

notBefore == cw.handshake[1].cert.valid_from[1]

notAfter == cw.handshake[1].cert.valid_to[1]

\* C17: the direct handshake reports valid exactly when
\* notBefore <= now <= notAfter, both bounds included; an expired or a not yet
\* valid certificate is reported not valid.
C17_InclusiveValidity ==
  HandshakeRead =>
    /\ cw.nativeSslInfo[1].ssl_valid = (notBefore <= now /\ now <= notAfter)
    /\ notAfter < now => ~cw.nativeSslInfo[1].ssl_valid
    /\ notBefore > now => ~cw.nativeSslInfo[1].ssl_valid

\* C17 witness: a certificate read at the very instant of its notAfter, after
\* its notBefore, is reported valid.
C17_Witness ==
  /\ HandshakeRead
  /\ now = notAfter
  /\ notBefore < now
  /\ cw.nativeSslInfo[1].ssl_valid

\* C18: the daysRemaining the direct handshake reports is the floor of
\* (notAfter - now) / one day: the one integer d with
\* d days <= notAfter - now < (d + 1) days, negative for an expired certificate.
C18_DaysRemainingFloor ==
  HandshakeRead =>
    /\ cw.nativeSslInfo[1].ssl_days_remaining # Undefined
    /\ LET d == cw.nativeSslInfo[1].ssl_days_remaining[1]
       IN /\ d * MsPerDay <= notAfter - now
          /\ notAfter - now < (d + 1) * MsPerDay

\* C18 witness: a certificate expired one millisecond ago is reported with
\* daysRemaining -1.
C18_Witness ==
  /\ HandshakeRead
  /\ notAfter - now = 0 - 1
  /\ cw.nativeSslInfo[1].ssl_days_remaining = Some(0 - 1)

(* ------------- two runs of POST capturing at the same time ------------- *)

\* the clock advances this many milliseconds while the two captures run
MaxClock == 1

\* the response the probes of the two runs got
Answered == [kind |-> "response", ok |-> TRUE, name |-> "", message |-> ""]

\* two requests for the same website, a standard site, are being handled and
\* each has called takeScreenshot: frames holds the activation of either run
InitNames ==
  /\ body = [kind |-> "array", websites |-> << [id |-> 1, url |-> "https://a.io"] >>]
  /\ pc = "capture"
  /\ idx = 1
  /\ results = <<>>
  /\ response = NoResponse
  /\ now = 0
  /\ cw = [NoCw EXCEPT !.fetched = Some(Answered)]
  /\ statusCheck = ProbeResult(website.url, Answered, NoSslInfo, 0)
  /\ screenshot_path = Undefined
  /\ frames = << NewFrame(0), NewFrame(0) >>
  /\ browsers = <<>>
  /\ calls = [NoCalls EXCEPT !.probe = 1, !.capture = 1]

\* a millisecond passes
Tick ==
  /\ now < MaxClock
  /\ now' = now + 1
  /\ UNCHANGED << body, pc, idx, results, response, cw, statusCheck, screenshot_path,
                  frames, browsers, calls >>

NextNames ==
  \/ Tick
  \/ Launch
  \/ Goto
  \/ Settle
  \/ Screenshot
  \/ Catch
  \/ CatchClose
  \/ Retry
  \/ Finally

SpecNames == InitNames /\ [][NextNames]_vars

\* C19 (as claimed): any two capture attempts that reached the screenshot
\* step wrote to different file names.
C19_NamesNeverCollide ==
  \A f, g \in 1..Len(frames) :
    (f # g /\ frames[f].ret.kind = "path" /\ frames[g].ret.kind = "path") =>
      frames[f].ret # frames[g].ret

(* ------------------------------ progress ------------------------------ *)

\* every timer fires and every awaited operation completes or times out: a
\* step that can be taken is eventually taken
SpecLive == Spec /\ WF_vars(Next)

\* C20: every run of POST eventually returns a response; the iteration of
\* every site, whatever its probe and capture did, ends with its result
\* pushed or with the response; takeScreenshot never has more than the first
\* activation and one retry.
C20_EventuallyResponds ==
  /\ <>(pc = "done" /\ response.status # 0)
  /\ \A k \in 1..MaxSites :
       (idx = k /\ pc = "fetch") ~> (pc = "done" \/ (pc = "loop" /\ Len(results) = k))
  /\ [](Len(frames) <= MaxRetries + 1)

\* C20 witness: the first site timed out in its probe and got no screenshot,
\* the run went on to the next site, whose capture was retried, and returned
\* 200 with both results.
C20_Witness ==
  /\ pc = "done"
  /\ response.status = 200
  /\ Len(response.data) = 2
  /\ response.data[1].error_message = Some("Request timeout")
  /\ response.data[1].screenshot_path = Undefined
  /\ calls.launch = MaxRetries + 1

(* ---------------- one call of takeScreenshot, any URL ------------------ *)

\* what follows the scheme of a URL
AfterScheme(url) ==
  IF StartsWith(url, "https://") THEN SubSeq(url, 9, Len(url))
  ELSE IF StartsWith(url, "http://") THEN SubSeq(url, 8, Len(url))
  ELSE url

RECURSIVE UpToDelimiter(_)
\* the characters of s before its first "/", "?" or "#"
UpToDelimiter(s) ==
  IF Len(s) = 0 \/ SubSeq(s, 1, 1) \in {"/", "?", "#"} THEN ""
  ELSE SubSeq(s, 1, 1) \o UpToDelimiter(SubSeq(s, 2, Len(s)))

\* new URL(url).hostname, for a URL without user information or port: the
\* lower-cased authority
Hostname(url) == ToLowerCase(UpToDelimiter(AfterScheme(url)))

\* URLs a request may carry: hosts on and off the list, and hosts off the
\* list with a listed domain in the path or the query
ClassifierUrls ==
  { "https://a.io", "http://EBAY.com/", "https://www.Amazon.com/x",
    "https://a.io/?u=ebay.com", "http://b.io/netflix.com" }

\* POST has called takeScreenshot for the only website of its body, whose
\* probe got a response
InitCapture ==
  /\ body \in { [kind |-> "array", websites |-> << [id |-> 1, url |-> u] >>]
                : u \in ClassifierUrls }
  /\ pc = "capture"
  /\ idx = 1
  /\ results = <<>>
  /\ response = NoResponse
  /\ now = 0
  /\ cw = [NoCw EXCEPT !.fetched = Some(Answered)]
  /\ statusCheck = ProbeResult(website.url, Answered, NoSslInfo, 0)
  /\ screenshot_path = Undefined
  /\ frames = << NewFrame(0) >>
  /\ browsers = <<>>
  /\ calls = [NoCalls EXCEPT !.probe = 1, !.capture = 1]

NextCapture ==
  \/ Launch
  \/ Goto
  \/ Settle
  \/ Screenshot
  \/ Catch
  \/ CatchClose
  \/ Retry
  \/ Finally

SpecCapture == InitCapture /\ [][NextCapture]_vars

\* the lower-cased host of the URL contains one of the listed domains
HostListed(url) == \E site \in specialSites : Includes(Hostname(url), site)

\* C21 (as claimed): the site of a running capture is classified special
\* exactly when the lower-cased host of its URL contains a listed domain.
C21_ClassifiedByHost ==
  (pc = "capture" /\ frames # <<>>) =>
    (needsSpecialHandling(website.url) <=> HostListed(website.url))

\* the direct handshake of the running probe ended with a socket error or
\* its idle timeout, no certificate read
HandshakeFailed ==
  /\ cw.handshake # Undefined
  /\ cw.handshake[1].kind \in {"error", "timeout"}

\* C22: a direct handshake that ended with a socket error or its timeout
\* delivers { ssl_valid: false } and nothing else to its caller, which goes on
\* to the third-party strategy: the request is not ended by it.
C22_HandshakeFailureContained ==
  HandshakeFailed =>
    /\ cw.nativeSslInfo = Some(NoSslInfo)
    /\ ~cw.nativeSslInfo[1].ssl_valid
    /\ pc \in {"checker", "probeReturn"}
    /\ response = NoResponse
    /\ calls.native = 1

\* C22 witness: the handshake timed out and checkWebsiteStatus, holding
\* { ssl_valid: false }, is about to try the third-party strategy.
C22_Witness ==
  /\ pc = "checker"
  /\ cw.handshake # Undefined
  /\ cw.handshake[1].kind = "timeout"
  /\ cw.nativeSslInfo = Some(NoSslInfo)

\* C23: every result for an https URL that has a screenshot_path has
\* ssl_valid true, in the list being built and in the list returned.
C23_SecureScreenshotValid ==
  /\ \A r \in Final :
       (IsHttps(r.url) /\ r.screenshot_path # Undefined) => r.ssl_valid
  /\ \A k \in 1..Len(response.data) :
       (IsHttps(response.data[k].url) /\ response.data[k].screenshot_path # Undefined)
         => response.data[k].ssl_valid

\* C23 witness: the probe of an https site threw and found no valid
\* certificate, the capture produced a file, and the result pushed has
\* status 'up' and ssl_valid true by the override.
C23_Witness ==
  /\ JustPushed
  /\ Secure
  /\ Fetched.kind = "throw"
  /\ ~cw.sslInfo.ssl_valid
  /\ ~ProbeValue.ssl_valid
  /\ results[idx].screenshot_path # Undefined
  /\ results[idx].status = "up"
  /\ results[idx].ssl_valid

\* activation f launched a browser and its finally block is through
Finished(f) == frames[f].pc = "settled" /\ frames[f].browser # 0

\* activation f took the retry branch of its catch block
TookRetryBranch(f) ==
  frames[f].failed /\ ShouldRetry(frames[f].retryCount, frames[f].error)

\* C24 (as claimed): close() has been invoked exactly once on the browser of
\* every activation whose finally block is through.
C24_Original ==
  \A f \in 1..Len(frames) :
    Finished(f) => browsers[frames[f].browser].closeCalls = 1

\* C24 (amended): close() has been invoked on the browser of every
\* activation whose finally block is through: twice when the activation took
\* the retry branch (by the catch block, then by the finally block), once
\* otherwise; never more than twice on any browser.
C24_ClosedOnceOrTwice ==
  /\ \A f \in 1..Len(frames) :
       Finished(f) =>
         browsers[frames[f].browser].closeCalls = IF TookRetryBranch(f) THEN 2 ELSE 1
  /\ \A b \in 1..Len(browsers) : browsers[b].closeCalls <= 2

\* C24 witness: both activations of a retried capture are through; the
\* first browser has had close() invoked twice, the second once.
C24_Witness ==
  /\ Len(frames) = 2
  /\ Finished(1)
  /\ Finished(2)
  /\ frames[1].ret.kind = "inner"
  /\ browsers[frames[1].browser].closeCalls = 2
  /\ browsers[frames[2].browser].closeCalls = 1
  /\ ~browsers[frames[1].browser].open
  /\ ~browsers[frames[2].browser].open

\* activation f failed with an error that is not retried: a message with
\* neither "timeout" nor "Navigation", no message, or a failure of the second
\* attempt
FailedForGood(f) ==
  /\ frames[f].failed
  /\ \/ frames[f].error = ""
     \/ ~(Includes(frames[f].error, "timeout") \/ Includes(frames[f].error, "Navigation"))
     \/ frames[f].retryCount >= 1

\* C25 (as claimed): an activation that failed with an error that is not
\* retried and is through has returned null, and no activation (and so no
\* browser launch) follows it.
C25_NoRetryReturnsNull ==
  \A f \in 1..Len(frames) :
    (FailedForGood(f) /\ frames[f].pc = "settled") =>
      /\ frames[f].ret = NullRet
      /\ Len(frames) = f

\* C26: a result that carries an error_message has status 'error', in the
\* list being built and in the list returned; a result with status 'up' or
\* 'down' carries none.
C26_MessageImpliesError ==
  /\ \A r \in Final : r.error_message # Undefined => r.status = "error"
  /\ \A k \in 1..Len(response.data) :
       response.data[k].error_message # Undefined => response.data[k].status = "error"

\* C26 witness: a returned list holds a result with status 'error' and the
\* probe's message, and a result with status 'down' and no message.
C26_Witness ==
  /\ pc = "done"
  /\ response.status = 200
  /\ \E k \in 1..Len(response.data) :
       /\ response.data[k].status = "error"
       /\ response.data[k].error_message = Some("Request timeout")
  /\ \E k \in 1..Len(response.data) :
       /\ response.data[k].status = "down"
       /\ response.data[k].error_message = Undefined

(* ------------- the events of one getSSLCertificateInfo call ------------ *)

\* a resolve that replaces the value the promise already has
ResolveLast(promise, v) == Some(v)

\* resolve(v) of the promise of line 70: the first call gives the promise
\* its value, a later call does nothing
Resolve(promise, v) == IF promise = Undefined THEN Some(v) ELSE promise

\* the three events of the socket: the connect callback with the certificate
\* read, the error listener, the 5000 ms timeout
SocketEvents == { e \in HandshakeEvents : e.kind \in {"secureConnect", "error", "timeout"} }

\* checkWebsiteStatus, its fetch answered or failed, has called
\* getSSLCertificateInfo for an https URL and awaits its promise
InitHandshake ==
  /\ body = [kind |-> "array", websites |-> << [id |-> 1, url |-> "https://a.io"] >>]
  /\ pc = "native"
  /\ idx = 1
  /\ results = <<>>
  /\ response = NoResponse
  /\ now = 0
  /\ cw \in { [NoCw EXCEPT !.fetched = Some(fetched)] : fetched \in FetchOutcomes }
  /\ statusCheck = NoStatusCheck
  /\ screenshot_path = Undefined
  /\ frames = <<>>
  /\ browsers = <<>>
  /\ calls = [NoCalls EXCEPT !.probe = 1]

\* the listener of `event` runs: it calls resolve with its record. Each kind
\* of event fires at most once; the code does not rely on which events can
\* still follow another, and neither does this action
HsEvent(event) ==
  /\ event.kind \notin cw.socket.fired
  /\ cw' = [cw EXCEPT
       !.socket.fired = @ \cup {event.kind},
       !.socket.first = IF cw.socket.fired = {} THEN Some(event) ELSE @,
       !.socket.resolves = @ + 1,
       !.socket.value = Resolve(@, getSSLCertificateInfo(website.url, event, now))]
  /\ UNCHANGED << body, pc, idx, results, response, now, statusCheck, screenshot_path,
                  frames, browsers, calls >>

\* the callback of tls.connect, lines 71-99
HsSecureConnect == \E event \in SocketEvents : event.kind = "secureConnect" /\ HsEvent(event)

\* socket.on('error', ...), lines 101-103
HsError == \E event \in SocketEvents : event.kind = "error" /\ HsEvent(event)

\* socket.setTimeout(5000, ...), lines 105-108
HsTimeout == \E event \in SocketEvents : event.kind = "timeout" /\ HsEvent(event)

\* the await of getSSLCertificateInfo resumes with the promise's value
HsDeliver ==
  /\ cw.socket.value # Undefined
  /\ ProbeNativeFrom({ cw.socket.first[1] })

NextHandshake ==
  \/ HsSecureConnect
  \/ HsError
  \/ HsTimeout
  \/ HsDeliver
  \/ ProbeChecker
  \/ ProbeReturn

SpecHandshake == InitHandshake /\ [][NextHandshake]_vars

\* C27: the promise of the direct handshake holds the record of the first
\* event that fired, whatever fired after it; the caller has received that
\* record, once, and events firing after the delivery leave it as it is.
C27_FirstEventDecides ==
  /\ cw.socket.first # Undefined =>
       cw.socket.value = Some(getSSLCertificateInfo(website.url, cw.socket.first[1], now))
  /\ cw.socket.first = Undefined => (cw.socket.value = Undefined /\ pc = "native")
  /\ pc \in {"checker", "probeReturn"} =>
       /\ cw.handshake = cw.socket.first
       /\ cw.nativeSslInfo = cw.socket.value
  /\ calls.native = IF pc = "native" THEN 0 ELSE 1

\* C27 witness: the handshake completed first with a valid certificate, its
\* record was delivered, and the timeout and an error fired afterwards:
\* resolve was called three times and the caller still holds the valid record.
C27_Witness ==
  /\ pc = "probeReturn"
  /\ cw.socket.first # Undefined
  /\ cw.socket.first[1].kind = "secureConnect"
  /\ cw.socket.resolves = 3
  /\ cw.nativeSslInfo # Undefined
  /\ cw.nativeSslInfo[1].ssl_valid
  /\ cw.sslInfo.ssl_valid

====
